---- MODULE Spec2Model ----
(***************************************************************************)
(* A model of tfidf-go: the tokenizer (package token), the TF / IDF /      *)
(* TF-IDF computation (package tfidf), the cosine similarity engine        *)
(* (package similarity).                                                   *)
(*                                                                         *)
(* Strings are sequences of Unicode code points; Go indexes them by UTF-8  *)
(* byte offset, so the byte width of every code point is kept (Utf8Len).   *)
(* float64 values are fixed-point integers: the real x is the integer      *)
(* x * Scale, products and quotients are truncated to that resolution.     *)
(***************************************************************************)
EXTENDS Integers, Sequences, FiniteSets, TLC

VARIABLES
    tokenizer,   \* the Tokenizer object: [kind, tokenPattern, normalizeFunc]
    vectorizer,  \* the TfIdfVectorizer object: [NormLevel]
    op,          \* the last call made on the library ("init" before any)
    args,        \* the arguments of that call
    ret,         \* what that call returned
    memory,      \* the arrays of float64 behind the slices of a TfIdf call
    goroutines   \* the calls that run concurrently, each with its position

vars == <<tokenizer, vectorizer, op, args, ret, memory, goroutines>>

----------------------------------------------------------------------------
(* Bounds of the model.                                                    *)

\* documents per corpus (and rows of a TF matrix)
MaxDocs == 2
\* code points in a corpus, all documents together
MaxChars == 5
\* terms in a caller-supplied vocabulary (and columns of a TF matrix)
MaxVocab == 2
\* tokens in one caller-supplied token sequence
MaxTokens == 2
\* cells of a caller-supplied TF matrix, all rows together
MaxCells == 4
\* fixed-point resolution of a float64: 1.0 is Scale
Scale == 1000

----------------------------------------------------------------------------
(* float64 arithmetic, fixed-point.                                        *)

\* float64(n) of an int n
F(n) == n * Scale

FMul(a, b) == (a * b) \div Scale

\* the float64 values that are no number of the fixed-point range: 0/0, x/0
NaN == -(2 ^ 30)

Inf == 2 ^ 30

\* a / b; float64 division by zero gives NaN or an infinity, it does not panic
FDiv(a, b) ==
    IF b # 0 THEN (a * Scale) \div b
    ELSE IF a = 0 THEN NaN
    ELSE IF a > 0 THEN Inf ELSE -Inf

FAbs(a) == IF a < 0 THEN -a ELSE a

RECURSIVE ISqrtIn(_, _, _)
\* the largest r in lo..hi with r * r <= n
ISqrtIn(n, lo, hi) ==
    IF lo >= hi THEN lo
    ELSE LET mid == (lo + hi + 1) \div 2
         IN  IF mid * mid <= n THEN ISqrtIn(n, mid, hi) ELSE ISqrtIn(n, lo, mid - 1)

\* math.Sqrt
FSqrt(a) == ISqrtIn(a * Scale, 0, 46340)

RECURSIVE AtanhSeries(_, _, _)
\* z^k/k + z^(k+2)/(k+2) + ... for 0 <= z < 1, p = z^k, until the power vanishes
AtanhSeries(z, p, k) ==
    IF p = 0 THEN 0
    ELSE (p \div k) + AtanhSeries(z, FMul(FMul(p, z), z), k + 2)

\* math.Log of x > 0: ln x = 2 atanh((x - 1) / (x + 1))
FLog(x) ==
    IF x >= Scale
    THEN LET z == FDiv(x - Scale, x + Scale) IN 2 * AtanhSeries(z, z, 1)
    ELSE LET z == FDiv(Scale - x, Scale + x) IN -(2 * AtanhSeries(z, z, 1))

----------------------------------------------------------------------------
(* Strings.                                                                *)

\* the code points of the documents: ' ', 'A', U+00E9 (e acute, two bytes)
Chars == {32, 65, 233}

\* unicode.IsLetter on the code points a token can hold:
\* 'A', 'a' to 'z', U+00C9, U+00E9
IsLetter(r) == r \in {65, 201, 233} \cup (97..122)

\* the number of bytes of r in UTF-8
Utf8Len(r) == IF r < 128 THEN 1 ELSE IF r < 2048 THEN 2 ELSE IF r < 65536 THEN 3 ELSE 4

\* the UTF-8 encoding of r
Utf8(r) ==
    IF r < 128 THEN <<r>>
    ELSE IF r < 2048 THEN <<192 + (r \div 64), 128 + (r % 64)>>
    ELSE IF r < 65536 THEN <<224 + (r \div 4096), 128 + ((r \div 64) % 64), 128 + (r % 64)>>
    ELSE <<240 + (r \div 262144), 128 + ((r \div 4096) % 64),
           128 + ((r \div 64) % 64), 128 + (r % 64)>>

RECURSIVE Bytes(_)
\* a Go string: the bytes of its code points
Bytes(s) == IF s = <<>> THEN <<>> ELSE Utf8(Head(s)) \o Bytes(Tail(s))

RECURSIVE ByteOffset(_, _)
\* the byte offset of the k-th code point of doc (k = Len(doc) + 1: len(doc))
ByteOffset(doc, k) == IF k <= 1 THEN 0 ELSE ByteOffset(doc, k - 1) + Utf8Len(doc[k - 1])

\* len(doc), in bytes
ByteLen(doc) == ByteOffset(doc, Len(doc) + 1)

\* doc[from:to], both byte offsets on code point boundaries
Slice(doc, from, to) ==
    LET ks == {k \in 1..Len(doc) : ByteOffset(doc, k) >= from /\ ByteOffset(doc, k) < to}
    IN  IF ks = {} THEN <<>>
        ELSE SubSeq(doc, CHOOSE k \in ks : \A m \in ks : k <= m,
                         CHOOSE k \in ks : \A m \in ks : k >= m)

RECURSIVE BytesLess(_, _)
\* a < b on Go strings: byte-wise lexicographic
BytesLess(a, b) ==
    IF b = <<>> THEN FALSE
    ELSE IF a = <<>> THEN TRUE
    ELSE IF Head(a) # Head(b) THEN Head(a) < Head(b)
    ELSE BytesLess(Tail(a), Tail(b))

StringLess(s, t) == BytesLess(Bytes(s), Bytes(t))

RECURSIVE Insert(_, _)
Insert(x, sorted) ==
    IF sorted = <<>> THEN <<x>>
    ELSE IF StringLess(Head(sorted), x) THEN <<Head(sorted)>> \o Insert(x, Tail(sorted))
    ELSE <<x>> \o sorted

RECURSIVE SlicesSort(_)
\* slices.Sort on a []string
SlicesSort(terms) ==
    IF terms = <<>> THEN <<>> ELSE Insert(Head(terms), SlicesSort(Tail(terms)))

----------------------------------------------------------------------------
(* package token.                                                          *)

\* the caller-supplied normalization functions of the model: none, one that
\* lowers the case (strings.ToLower), one that maps every token to "this"
\* (the one of the test), and one that swaps the case (not idempotent)
NormalizeFuncs == {"nil", "ToLower", "This", "SwapCase"}

LowerRune(r) == IF r = 65 THEN 97 ELSE IF r = 201 THEN 233 ELSE r

SwapRune(r) ==
    IF r = 65 THEN 97 ELSE IF r = 97 THEN 65
    ELSE IF r = 201 THEN 233 ELSE IF r = 233 THEN 201 ELSE r

\* fn(token), fn a normalization function that is not nil
Call(fn, token) ==
    IF fn = "ToLower" THEN [k \in 1..Len(token) |-> LowerRune(token[k])]
    ELSE IF fn = "SwapCase" THEN [k \in 1..Len(token) |-> SwapRune(token[k])]
    ELSE <<116, 104, 105, 115>>

\* Tokenizer.doNormalize of the scanning tokenizer
doNormalize(t, token) ==
    IF t.normalizeFunc # "nil" THEN Call(t.normalizeFunc, token) ELSE token

RECURSIVE ScanFrom(_, _, _, _, _)
\* the loop of the scanning tokenize from the k-th code point on, and the
\* trailing token after it; start is a byte offset, -1 outside a run
ScanFrom(t, doc, k, start, tokens) ==
    IF k > Len(doc)
    THEN IF start # -1 /\ ByteLen(doc) - start > 1
         THEN Append(tokens, doNormalize(t, Slice(doc, start, ByteLen(doc))))
         ELSE tokens
    ELSE LET i == ByteOffset(doc, k) IN
         IF IsLetter(doc[k])
         THEN ScanFrom(t, doc, k + 1, IF start = -1 THEN i ELSE start, tokens)
         ELSE IF start # -1 /\ i - start > 1
         THEN ScanFrom(t, doc, k + 1, -1, Append(tokens, doNormalize(t, Slice(doc, start, i))))
         ELSE ScanFrom(t, doc, k + 1, -1, tokens)

\* Tokenizer.tokenize of the scanning tokenizer
tokenize(t, doc) == ScanFrom(t, doc, 1, -1, <<>>)

RECURSIVE FindAllFrom(_, _, _, _)
\* the matches of \p{L}{2,} from the k-th code point on: leftmost, longest;
\* from is the index of the first code point of the current run of letters,
\* 0 outside a run
FindAllFrom(doc, k, from, terms) ==
    IF k > Len(doc)
    THEN IF from # 0 /\ k - from >= 2 THEN Append(terms, SubSeq(doc, from, k - 1)) ELSE terms
    ELSE IF IsLetter(doc[k])
    THEN FindAllFrom(doc, k + 1, IF from = 0 THEN k ELSE from, terms)
    ELSE IF from # 0 /\ k - from >= 2
    THEN FindAllFrom(doc, k + 1, 0, Append(terms, SubSeq(doc, from, k - 1)))
    ELSE FindAllFrom(doc, k + 1, 0, terms)

\* regexp.FindAllString(doc, -1) with the default token pattern
FindAllString(doc) == FindAllFrom(doc, 1, 0, <<>>)

\* Tokenizer.tokenize of the pattern-based tokenizer, the pattern compiled
regexpTokenize(t, doc) ==
    LET terms == FindAllString(doc) IN
    IF t.normalizeFunc = "nil" THEN terms
    ELSE [j \in 1..Len(terms) |-> Call(t.normalizeFunc, terms[j])]

RECURSIVE Flatten(_)
Flatten(tokens) == IF tokens = <<>> THEN <<>> ELSE Head(tokens) \o Flatten(Tail(tokens))

\* the loop of vocabulary without the map of the terms seen
UniqueKeepsAll(toks, terms) == terms \o toks

RECURSIVE Unique(_, _)
\* the loop of vocabulary: the tokens not seen before, in order of discovery
Unique(toks, terms) ==
    IF toks = <<>> THEN terms
    ELSE IF \E k \in 1..Len(terms) : terms[k] = Head(toks)
    THEN Unique(Tail(toks), terms)
    ELSE Unique(Tail(toks), Append(terms, Head(toks)))

\* vocabulary that does not sort what it found
vocabularyUnsorted(tokens) == Unique(Flatten(tokens), <<>>)

\* vocabulary(tokens)
vocabulary(tokens) == SlicesSort(Unique(Flatten(tokens), <<>>))

\* Tokenizer.Tokenize of the scanning tokenizer
scanTokenize(t, documents) ==
    LET tokens == [i \in 1..Len(documents) |->
                     LET tkns == tokenize(t, documents[i]) IN
                     IF t.normalizeFunc # "nil"
                     THEN [j \in 1..Len(tkns) |-> Call(t.normalizeFunc, tkns[j])]
                     ELSE tkns]
    IN  [vocabulary |-> vocabulary(tokens), tokens |-> tokens, err |-> "nil"]

\* Tokenizer.Tokenize of the pattern-based tokenizer: the pattern is compiled
\* for every document, so a pattern that does not compile fails on the first
patternTokenize(t, documents) ==
    IF documents # <<>> /\ t.tokenPattern # "default"
    THEN [vocabulary |-> <<>>, tokens |-> <<>>, err |-> "error parsing regexp"]
    ELSE LET tokens == [i \in 1..Len(documents) |-> regexpTokenize(t, documents[i])]
         IN  [vocabulary |-> vocabulary(tokens), tokens |-> tokens, err |-> "nil"]

\* Tokenizer.Tokenize
Tokenize(t, documents) ==
    IF t.kind = "scan" THEN scanTokenize(t, documents) ELSE patternTokenize(t, documents)

----------------------------------------------------------------------------
(* package tfidf.                                                          *)

NoNorm == 0
L1Norm == 1
L2Norm == 2

\* the number of occurrences of term in tokensRow
Occurrences(term, tokensRow) == Cardinality({k \in 1..Len(tokensRow) : tokensRow[k] = term})

\* Tf that marks the terms found instead of counting them
TfPresence(vocab, tokens) ==
    [i \in 1..Len(tokens) |->
        [j \in 1..Len(vocab) |->
            IF \E k \in 1..Len(tokens[i]) : tokens[i][k] = vocab[j] THEN F(1) ELSE 0]]

\* Tf(vocabulary, tokens)
Tf(vocab, tokens) ==
    [i \in 1..Len(tokens) |->
        LET tokensRow == tokens[i]
            found == {tokensRow[k] : k \in 1..Len(tokensRow)}
            termsMap == [term \in found |-> Occurrences(term, tokensRow)]
        IN  [j \in 1..Len(vocab) |->
                IF vocab[j] \in found THEN F(termsMap[vocab[j]]) ELSE 0]]

\* docCount that counts every occurrence of term, not every document
\* docMaps of Idf: the set of the tokens of every document
DocMaps(tokens) == [i \in 1..Len(tokens) |-> {tokens[i][k] : k \in 1..Len(tokens[i])}]

\* docCount that counts every occurrence of term, not every document
DocCountOccurrences(term, tokens) ==
    Cardinality({p \in (1..Len(tokens)) \X (1..MaxTokens + 1) :
                    p[2] <= Len(tokens[p[1]]) /\ tokens[p[1]][p[2]] = term})

\* docCount of Idf: the documents whose map holds term
DocCount(term, tokens) ==
    LET docMaps == DocMaps(tokens) IN
    Cardinality({i \in 1..Len(docMaps) : term \in docMaps[i]})

\* Idf whose smoothing adds one to the number of documents only
IdfSmoothTotalOnly(vocab, tokens, smoothing) ==
    LET total == Len(tokens) IN
    IF total = 0 THEN [j \in 1..Len(vocab) |-> Scale]
    ELSE [j \in 1..Len(vocab) |->
             LET docCount == DocCount(vocab[j], tokens) IN
             IF docCount = 0 THEN FLog(F(total + (IF smoothing THEN 1 ELSE 0))) + Scale
             ELSE IF smoothing THEN FLog(FDiv(F(total + 1), F(docCount))) + Scale
             ELSE FLog(FDiv(F(total), F(docCount))) + Scale]

\* Idf that leaves out the + 1
IdfNoOffset(vocab, tokens, smoothing) ==
    LET total == Len(tokens) IN
    IF total = 0 THEN [j \in 1..Len(vocab) |-> Scale]
    ELSE [j \in 1..Len(vocab) |->
             LET docCount == DocCount(vocab[j], tokens) IN
             IF smoothing THEN FLog(FDiv(F(total + 1), F(docCount + 1)))
             ELSE IF docCount = 0 THEN FLog(F(total))
             ELSE FLog(FDiv(F(total), F(docCount)))]

\* Idf that leaves the vector of an empty corpus as make allocated it
IdfEmptyUnset(vocab, tokens, smoothing) ==
    LET total == Len(tokens) IN
    IF total = 0 THEN [j \in 1..Len(vocab) |-> 0]
    ELSE [j \in 1..Len(vocab) |->
             LET docCount == DocCount(vocab[j], tokens) IN
             IF smoothing THEN FLog(FDiv(F(total + 1), F(docCount + 1))) + Scale
             ELSE IF docCount = 0 THEN FLog(F(total)) + Scale
             ELSE FLog(FDiv(F(total), F(docCount))) + Scale]

\* Idf(vocabulary, tokens, smoothing)
Idf(vocab, tokens, smoothing) ==
    LET total == Len(tokens) IN
    IF total = 0 THEN [j \in 1..Len(vocab) |-> Scale]
    ELSE [j \in 1..Len(vocab) |->
             LET docCount == DocCount(vocab[j], tokens) IN
             IF smoothing THEN FLog(FDiv(F(total + 1), F(docCount + 1))) + Scale
             ELSE IF docCount = 0 THEN FLog(F(total)) + Scale
             ELSE FLog(FDiv(F(total), F(docCount))) + Scale]

RECURSIVE Sum(_)
Sum(vec) == IF vec = <<>> THEN 0 ELSE Head(vec) + Sum(Tail(vec))

\* l1Normalize that divides by the norm whatever it is
l1NormalizeUnguarded(vec) ==
    LET norm == Sum([k \in 1..Len(vec) |-> FAbs(vec[k])]) IN
    [k \in 1..Len(vec) |-> FDiv(vec[k], norm)]

\* l1Normalize(vec)
l1Normalize(vec) ==
    LET norm == Sum([k \in 1..Len(vec) |-> FAbs(vec[k])]) IN
    IF norm = 0 THEN vec ELSE [k \in 1..Len(vec) |-> FDiv(vec[k], norm)]

\* l2Normalize that divides by the sum of the squares, not by its root
l2NormalizeNoRoot(vec) ==
    LET norm == Sum([k \in 1..Len(vec) |-> FMul(vec[k], vec[k])]) IN
    IF norm = 0 THEN vec ELSE [k \in 1..Len(vec) |-> FDiv(vec[k], norm)]

\* l2Normalize(vec)
l2Normalize(vec) ==
    LET norm == FSqrt(Sum([k \in 1..Len(vec) |-> FMul(vec[k], vec[k])])) IN
    IF norm = 0 THEN vec ELSE [k \in 1..Len(vec) |-> FDiv(vec[k], norm)]

\* doNormalize that leaves the vector as it is for a level it does not know
vecNormalizeLenient(t, vec) ==
    IF t.NormLevel = L1Norm THEN [vec |-> l1Normalize(vec), err |-> "nil"]
    ELSE IF t.NormLevel = L2Norm THEN [vec |-> l2Normalize(vec), err |-> "nil"]
    ELSE [vec |-> vec, err |-> "nil"]

\* TfIdfVectorizer.doNormalize(vec)
vecNormalize(t, vec) ==
    IF t.NormLevel = L1Norm THEN [vec |-> l1Normalize(vec), err |-> "nil"]
    ELSE IF t.NormLevel = L2Norm THEN [vec |-> l2Normalize(vec), err |-> "nil"]
    ELSE IF t.NormLevel = NoNorm THEN [vec |-> vec, err |-> "nil"]
    ELSE [vec |-> <<>>, err |-> "invalid normalization level"]

RECURSIVE TfIdfRows(_, _, _, _, _)
\* the loop of TfIdf from row i on, tfIdfMat the rows before it: a row of
\* tfVec, or idfVec, shorter than the first row is read out of range, which
\* panics
TfIdfRows(t, tfVec, idfVec, i, tfIdfMat) ==
    IF i > Len(tfVec) THEN [tfIdfMat |-> tfIdfMat, err |-> "nil", panic |-> FALSE]
    ELSE IF Len(tfVec[i]) < Len(tfVec[1]) \/ Len(idfVec) < Len(tfVec[1])
    THEN [tfIdfMat |-> <<>>, err |-> "nil", panic |-> TRUE]
    ELSE LET row == [j \in 1..Len(tfVec[1]) |-> FMul(tfVec[i][j], idfVec[j])]
             n == vecNormalize(t, row)
         IN  IF n.err # "nil" THEN [tfIdfMat |-> <<>>, err |-> n.err, panic |-> FALSE]
             ELSE TfIdfRows(t, tfVec, idfVec, i + 1, Append(tfIdfMat, n.vec))

\* TfIdf that does not look for an empty matrix: tfVec[0] panics
TfIdfNoEmptyCheck(t, tfVec, idfVec) ==
    IF Len(tfVec) = 0 THEN [tfIdfMat |-> <<>>, err |-> "nil", panic |-> TRUE]
    ELSE IF Len(tfVec[1]) # Len(idfVec)
    THEN [tfIdfMat |-> <<>>, panic |-> FALSE,
          err |-> "TF matrix and IDF vector dimensions don't match"]
    ELSE TfIdfRows(t, tfVec, idfVec, 1, <<>>)

\* TfIdf that compares the number of rows with the length of idfVec
TfIdfChecksRows(t, tfVec, idfVec) ==
    IF Len(tfVec) = 0 THEN [tfIdfMat |-> <<>>, err |-> "empty TF matrix", panic |-> FALSE]
    ELSE IF Len(tfVec) # Len(idfVec)
    THEN [tfIdfMat |-> <<>>, panic |-> FALSE,
          err |-> "TF matrix and IDF vector dimensions don't match"]
    ELSE TfIdfRows(t, tfVec, idfVec, 1, <<>>)

\* TfIdfVectorizer.TfIdf(tfVec, idfVec)
TfIdf(t, tfVec, idfVec) ==
    IF Len(tfVec) = 0 THEN [tfIdfMat |-> <<>>, err |-> "empty TF matrix", panic |-> FALSE]
    ELSE IF Len(tfVec[1]) # Len(idfVec)
    THEN [tfIdfMat |-> <<>>, panic |-> FALSE,
          err |-> "TF matrix and IDF vector dimensions don't match"]
    ELSE TfIdfRows(t, tfVec, idfVec, 1, <<>>)

----------------------------------------------------------------------------
(* TfIdf on the storage of its slices. The memory is a list of arrays of  *)
(* float64, an address is an index of it; a []float64 is the address of   *)
(* its array, a [][]float64 the list of the addresses of its rows.        *)

\* the rows of TfIdf that are the rows of tfVec, not arrays of their own
MakeRowsAliased(mem, tfRows) == [mem |-> mem, rows |-> tfRows]

\* tfIdfMat[i] = make([]float64, len(tfVec[0])) for every row: new arrays of
\* zeros after the ones the memory holds
MakeRows(mem, tfRows) ==
    [mem  |-> mem \o [i \in 1..Len(tfRows) |-> [j \in 1..Len(mem[tfRows[1]]) |-> 0]],
     rows |-> [i \in 1..Len(tfRows) |-> Len(mem) + i]]

\* one turn of the loop of TfIdf that multiplies the row of tfVec in place
\* before it copies it into row i
TfIdfRowScalesArgument(t, mem, tfRows, idfAt, rows, i) ==
    IF Len(mem[tfRows[i]]) < Len(mem[rows[i]]) \/ Len(mem[idfAt]) < Len(mem[rows[i]])
    THEN [mem |-> mem, err |-> "nil", panic |-> TRUE]
    ELSE LET scaled == [mem EXCEPT ![tfRows[i]] =
                           [j \in 1..Len(mem[tfRows[i]]) |->
                               IF j <= Len(mem[rows[i]])
                               THEN FMul(mem[tfRows[i]][j], mem[idfAt][j])
                               ELSE mem[tfRows[i]][j]]]
             filled == [scaled EXCEPT ![rows[i]] =
                           [j \in 1..Len(mem[rows[i]]) |-> scaled[tfRows[i]][j]]]
             n == vecNormalize(t, filled[rows[i]])
         IN  IF n.err # "nil" THEN [mem |-> filled, err |-> n.err, panic |-> FALSE]
             ELSE [mem |-> [filled EXCEPT ![rows[i]] = n.vec], err |-> "nil", panic |-> FALSE]

\* one turn of the loop of TfIdf: row i is filled with the products, then
\* doNormalize writes the normalized values into the same array
TfIdfRowInPlace(t, mem, tfRows, idfAt, rows, i) ==
    IF Len(mem[tfRows[i]]) < Len(mem[rows[i]]) \/ Len(mem[idfAt]) < Len(mem[rows[i]])
    THEN [mem |-> mem, err |-> "nil", panic |-> TRUE]
    ELSE LET filled == [mem EXCEPT ![rows[i]] =
                           [j \in 1..Len(mem[rows[i]]) |->
                               FMul(mem[tfRows[i]][j], mem[idfAt][j])]]
             n == vecNormalize(t, filled[rows[i]])
         IN  IF n.err # "nil" THEN [mem |-> filled, err |-> n.err, panic |-> FALSE]
             ELSE [mem |-> [filled EXCEPT ![rows[i]] = n.vec], err |-> "nil", panic |-> FALSE]

RECURSIVE TfIdfRowsInPlace(_, _, _, _, _, _)
\* the loop of TfIdf from row i on
TfIdfRowsInPlace(t, mem, tfRows, idfAt, rows, i) ==
    IF i > Len(rows) THEN [mem |-> mem, rows |-> rows, err |-> "nil", panic |-> FALSE]
    ELSE LET r == TfIdfRowInPlace(t, mem, tfRows, idfAt, rows, i)
         IN  IF r.panic \/ r.err # "nil"
             THEN [mem |-> r.mem, rows |-> <<>>, err |-> r.err, panic |-> r.panic]
             ELSE TfIdfRowsInPlace(t, r.mem, tfRows, idfAt, rows, i + 1)

\* TfIdf(tfVec, idfVec) on the memory mem, tfVec the rows at tfRows and
\* idfVec the array at idfAt: the memory after the call and the rows returned
TfIdfInPlace(t, mem, tfRows, idfAt) ==
    IF Len(tfRows) = 0
    THEN [mem |-> mem, rows |-> <<>>, err |-> "empty TF matrix", panic |-> FALSE]
    ELSE IF Len(mem[tfRows[1]]) # Len(mem[idfAt])
    THEN [mem |-> mem, rows |-> <<>>, panic |-> FALSE,
          err |-> "TF matrix and IDF vector dimensions don't match"]
    ELSE LET m == MakeRows(mem, tfRows)
         IN  TfIdfRowsInPlace(t, m.mem, tfRows, idfAt, m.rows, 1)

\* the memory of a caller that holds tfVec and idfVec: the rows, then idfVec
StoreArguments(tfVec, idfVec) == tfVec \o <<idfVec>>

----------------------------------------------------------------------------
(* package similarity.                                                     *)

\* the sums of the loop of cosineSimilarity, which runs over the indices of vec1
CosineSums(vec1, vec2) ==
    [dot   |-> Sum([i \in 1..Len(vec1) |-> FMul(vec1[i], vec2[i])]),
     normA |-> Sum([i \in 1..Len(vec1) |-> FMul(vec1[i], vec1[i])]),
     normB |-> Sum([i \in 1..Len(vec1) |-> FMul(vec2[i], vec2[i])])]

\* cosineSimilarity that divides whatever the norms are
cosineSimilarityUnguarded(vec1, vec2) ==
    IF Len(vec2) < Len(vec1) THEN [score |-> 0, panic |-> TRUE]
    ELSE LET s == CosineSums(vec1, vec2)
         IN  [score |-> FDiv(s.dot, FMul(FSqrt(s.normA), FSqrt(s.normB))), panic |-> FALSE]

\* cosineSimilarity that divides by the squared norms, not by their roots
cosineSimilarityNoRoot(vec1, vec2) ==
    IF Len(vec2) < Len(vec1) THEN [score |-> 0, panic |-> TRUE]
    ELSE LET s == CosineSums(vec1, vec2)
         IN  IF s.normA = 0 \/ s.normB = 0 THEN [score |-> 0, panic |-> FALSE]
             ELSE [score |-> FDiv(s.dot, FMul(s.normA, s.normB)), panic |-> FALSE]

\* cosineSimilarity(vec1, vec2): vec2[i] of a vec2 shorter than vec1 panics
cosineSimilarity(vec1, vec2) ==
    IF Len(vec2) < Len(vec1) THEN [score |-> 0, panic |-> TRUE]
    ELSE LET s == CosineSums(vec1, vec2)
         IN  IF s.normA = 0 \/ s.normB = 0 THEN [score |-> 0, panic |-> FALSE]
             ELSE [score |-> FDiv(s.dot, FMul(FSqrt(s.normA), FSqrt(s.normB))),
                   panic |-> FALSE]

\* c.tokenizer.Tokenize(documents), the nth Tokenize call of Do: the
\* tokenizer is any implementation of the interface, the model has the two
\* of the library and doubles that wrap one of them and fail at one call
InterfaceTokenize(t, nth, documents) ==
    IF t.kind # "double" THEN Tokenize(t, documents)
    ELSE IF t.failOn = nth THEN [vocabulary |-> <<>>, tokens |-> <<>>, err |-> t.err]
    ELSE Tokenize(t.inner, documents)

\* c.vectorizer.TfIdf(tfVec, idfVec), the nth TfIdf call of Do
InterfaceTfIdf(t, nth, tfVec, idfVec) ==
    IF "kind" \notin DOMAIN t THEN TfIdf(t, tfVec, idfVec)
    ELSE IF t.failOn = nth THEN [tfIdfMat |-> <<>>, err |-> t.err, panic |-> FALSE]
    ELSE TfIdf(t.inner, tfVec, idfVec)

\* what Do returns, nil scores being the empty list, with the calls it made
\* on its tokenizer and its vectorizer and the error each returned
DoReturn(scores, err, calls, panic) ==
    [scores |-> scores, err |-> err, calls |-> calls, panic |-> panic]

\* the scores of Do with the first document compared for every document
DoScoresFirstRow(documents, tfIdf, tfIdfVec) ==
    [i \in 1..Len(documents) |->
        IF i <= Len(tfIdfVec) THEN cosineSimilarity(tfIdf[1], tfIdfVec[1]).score ELSE 0]

\* the scores of Do with every document compared with itself, not the query
DoScoresSelf(documents, tfIdf, tfIdfVec) ==
    [i \in 1..Len(documents) |->
        IF i <= Len(tfIdfVec) THEN cosineSimilarity(tfIdfVec[i], tfIdfVec[i]).score ELSE 0]

\* the scores of Do: one per document, set from the rows of tfIdfVec
DoScores(documents, tfIdf, tfIdfVec) ==
    [i \in 1..Len(documents) |->
        IF i <= Len(tfIdfVec) THEN cosineSimilarity(tfIdf[1], tfIdfVec[i]).score ELSE 0]

\* whether the scoring loop of Do panics: no row for the query, more rows
\* than documents, a row shorter than the query's
DoScoresPanic(documents, tfIdf, tfIdfVec) ==
    \/ Len(tfIdf) = 0
    \/ Len(tfIdfVec) > Len(documents)
    \/ \E i \in 1..Len(tfIdfVec) : cosineSimilarity(tfIdf[1], tfIdfVec[i]).panic

\* the second half of Do with the term frequencies of the query taken over the
\* vocabulary of the query, not of the documents
DoQueryOwnVocabulary(c, input, documents, vocab, idfVec, tfIdfVec, calls) ==
    LET r3 == InterfaceTokenize(c.tokenizer, 2, <<input>>)
        calls3 == Append(calls, [call |-> "Tokenize(input)", err |-> r3.err])
        tf == Tf(r3.vocabulary, r3.tokens)
        r4 == InterfaceTfIdf(c.vectorizer, 2, tf, idfVec)
        calls4 == Append(calls3, [call |-> "TfIdf(input)", err |-> r4.err])
    IN  IF r3.err # "nil" THEN DoReturn(<<>>, r3.err, calls3, FALSE)
        ELSE IF r4.panic THEN DoReturn(<<>>, "nil", calls4, TRUE)
        ELSE IF r4.err # "nil" THEN DoReturn(<<>>, r4.err, calls4, FALSE)
        ELSE IF DoScoresPanic(documents, r4.tfIdfMat, tfIdfVec)
        THEN DoReturn(<<>>, "nil", calls4, TRUE)
        ELSE DoReturn(DoScores(documents, r4.tfIdfMat, tfIdfVec), "nil", calls4, FALSE)

\* the second half of Do that does not look at the error of Tokenize
DoQueryIgnoresError(c, input, documents, vocab, idfVec, tfIdfVec, calls) ==
    LET r3 == InterfaceTokenize(c.tokenizer, 2, <<input>>)
        calls3 == Append(calls, [call |-> "Tokenize(input)", err |-> r3.err])
        tf == Tf(vocab, r3.tokens)
        r4 == InterfaceTfIdf(c.vectorizer, 2, tf, idfVec)
        calls4 == Append(calls3, [call |-> "TfIdf(input)", err |-> r4.err])
    IN  IF r4.panic THEN DoReturn(<<>>, "nil", calls4, TRUE)
        ELSE IF r4.err # "nil" THEN DoReturn(<<>>, r4.err, calls4, FALSE)
        ELSE IF DoScoresPanic(documents, r4.tfIdfMat, tfIdfVec)
        THEN DoReturn(<<>>, "nil", calls4, TRUE)
        ELSE DoReturn(DoScores(documents, r4.tfIdfMat, tfIdfVec), "nil", calls4, FALSE)

\* Do from the Tokenize call on the query on (cosine.go:58-77); calls are the
\* calls made before, tfIdfVec the TF-IDF matrix of the documents
DoQuery(c, input, documents, vocab, idfVec, tfIdfVec, calls) ==
    LET r3 == InterfaceTokenize(c.tokenizer, 2, <<input>>)
        calls3 == Append(calls, [call |-> "Tokenize(input)", err |-> r3.err])
        tf == Tf(vocab, r3.tokens)
        r4 == InterfaceTfIdf(c.vectorizer, 2, tf, idfVec)
        calls4 == Append(calls3, [call |-> "TfIdf(input)", err |-> r4.err])
    IN  IF r3.err # "nil" THEN DoReturn(<<>>, r3.err, calls3, FALSE)
        ELSE IF r4.panic THEN DoReturn(<<>>, "nil", calls4, TRUE)
        ELSE IF r4.err # "nil" THEN DoReturn(<<>>, r4.err, calls4, FALSE)
        ELSE IF DoScoresPanic(documents, r4.tfIdfMat, tfIdfVec)
        THEN DoReturn(<<>>, "nil", calls4, TRUE)
        ELSE DoReturn(DoScores(documents, r4.tfIdfMat, tfIdfVec), "nil", calls4, FALSE)

\* Do that computes the IDF vector without smoothing
DoNoSmoothing(c, input, documents) ==
    LET r1 == InterfaceTokenize(c.tokenizer, 1, documents)
        calls1 == <<[call |-> "Tokenize(documents)", err |-> r1.err]>>
        tfVec == Tf(r1.vocabulary, r1.tokens)
        idfVec == Idf(r1.vocabulary, r1.tokens, FALSE)
        r2 == InterfaceTfIdf(c.vectorizer, 1, tfVec, idfVec)
        calls2 == Append(calls1, [call |-> "TfIdf(documents)", err |-> r2.err])
    IN  IF r1.err # "nil" THEN DoReturn(<<>>, r1.err, calls1, FALSE)
        ELSE IF r2.panic THEN DoReturn(<<>>, "nil", calls2, TRUE)
        ELSE IF r2.err # "nil" THEN DoReturn(<<>>, r2.err, calls2, FALSE)
        ELSE DoQuery(c, input, documents, r1.vocabulary, idfVec, r2.tfIdfMat, calls2)

\* Do that does not look at the error of the first TfIdf call
DoIgnoresVectorizerError(c, input, documents) ==
    LET r1 == InterfaceTokenize(c.tokenizer, 1, documents)
        calls1 == <<[call |-> "Tokenize(documents)", err |-> r1.err]>>
        tfVec == Tf(r1.vocabulary, r1.tokens)
        idfVec == Idf(r1.vocabulary, r1.tokens, TRUE)
        r2 == InterfaceTfIdf(c.vectorizer, 1, tfVec, idfVec)
        calls2 == Append(calls1, [call |-> "TfIdf(documents)", err |-> r2.err])
    IN  IF r1.err # "nil" THEN DoReturn(<<>>, r1.err, calls1, FALSE)
        ELSE IF r2.panic THEN DoReturn(<<>>, "nil", calls2, TRUE)
        ELSE DoQuery(c, input, documents, r1.vocabulary, idfVec, r2.tfIdfMat, calls2)

\* CosineSimilarity.Do(input, documents), c the CosineSimilarity object
Do(c, input, documents) ==
    LET r1 == InterfaceTokenize(c.tokenizer, 1, documents)
        calls1 == <<[call |-> "Tokenize(documents)", err |-> r1.err]>>
        tfVec == Tf(r1.vocabulary, r1.tokens)
        idfVec == Idf(r1.vocabulary, r1.tokens, TRUE)
        r2 == InterfaceTfIdf(c.vectorizer, 1, tfVec, idfVec)
        calls2 == Append(calls1, [call |-> "TfIdf(documents)", err |-> r2.err])
    IN  IF r1.err # "nil" THEN DoReturn(<<>>, r1.err, calls1, FALSE)
        ELSE IF r2.panic THEN DoReturn(<<>>, "nil", calls2, TRUE)
        ELSE IF r2.err # "nil" THEN DoReturn(<<>>, r2.err, calls2, FALSE)
        ELSE DoQuery(c, input, documents, r1.vocabulary, idfVec, r2.tfIdfMat, calls2)

----------------------------------------------------------------------------
(* The objects and the inputs of the calls.                                *)

\* NewTokenizer(opts...) of the scanning tokenizer
NewTokenizer(fn) == [kind |-> "scan", tokenPattern |-> "none", normalizeFunc |-> fn]

\* NewTokenizer(opts...) of the pattern-based tokenizer
NewPatternTokenizer(pattern, fn) ==
    [kind |-> "regexp", tokenPattern |-> pattern, normalizeFunc |-> fn]

\* NewTfIdfVectorizer(opts...): WithNormLevel(lvl) replaces the default, L2Norm
NewTfIdfVectorizer(opts) ==
    IF opts = <<>> THEN [NormLevel |-> L2Norm] ELSE [NormLevel |-> opts[Len(opts)]]

ScanTokenizers == {NewTokenizer(fn) : fn \in NormalizeFuncs}

PatternTokenizers ==
    {NewPatternTokenizer("default", fn) : fn \in NormalizeFuncs}
        \cup {NewPatternTokenizer("invalid", "nil")}

\* the levels a caller can pass to WithNormLevel: NLevel is an int
NLevels == {NoNorm, L1Norm, L2Norm, L2Norm + 1}

Vectorizers == {NewTfIdfVectorizer(<<>>)} \cup {NewTfIdfVectorizer(<<lvl>>) : lvl \in NLevels}

SeqsUpTo(S, n) == UNION {[1..k -> S] : k \in 0..n}

RECURSIVE ListsWithin(_, _, _)
\* the lists of k sequences over S that hold at most n elements together
ListsWithin(S, k, n) ==
    IF k = 0 THEN {<<>>}
    ELSE UNION {{<<d>> \o c : d \in [1..m -> S], c \in ListsWithin(S, k - 1, n - m)} : m \in 0..n}

\* the corpora: at most MaxDocs documents of at most MaxChars code points together
Corpora == UNION {ListsWithin(Chars, k, MaxChars) : k \in 0..MaxDocs}

\* the tokens of caller-supplied vocabularies and token sequences: "AA", "A" U+00E9
Terms == {<<65, 65>>, <<65, 233>>}

Vocabularies == SeqsUpTo(Terms, MaxVocab)

TokenLists == SeqsUpTo(SeqsUpTo(Terms, MaxTokens), MaxDocs)

\* caller-supplied TF matrices, ragged ones too
TfMatrices ==
    {m \in UNION {ListsWithin({F(0), F(1), F(2)}, k, MaxCells) : k \in 0..MaxDocs} :
        \A i \in 1..Len(m) : Len(m[i]) <= MaxVocab}

\* caller-supplied IDF vectors: weights 1 and 1.5
IdfVectors == SeqsUpTo({Scale, Scale + (Scale \div 2)}, MaxVocab)

\* the vectors cosineSimilarity is called on: entries -1, 0, 0.5, 1, 2
CosineVectors == SeqsUpTo({-Scale, 0, Scale \div 2, Scale, 2 * Scale}, MaxVocab)

\* NewCosineSimilarity(tokenizer, vectorizer)
NewCosineSimilarity(tk, vc) == [tokenizer |-> tk, vectorizer |-> vc]

\* an injected tokenizer: inner, but its Tokenize call number failOn fails
TokenizerDouble(inner, failOn) ==
    [kind |-> "double", inner |-> inner, failOn |-> failOn, err |-> "tokenizer double failed"]

\* an injected vectorizer: inner, but its TfIdf call number failOn fails
VectorizerDouble(inner, failOn) ==
    [kind |-> "double", inner |-> inner, failOn |-> failOn, err |-> "vectorizer double failed"]

\* the tokenizers Do runs with
DoTokenizers ==
    {NewTokenizer("nil"), NewTokenizer("ToLower"),
     NewPatternTokenizer("default", "nil"), NewPatternTokenizer("invalid", "nil")}
        \cup {TokenizerDouble(NewTokenizer("nil"), n) : n \in 1..2}

\* the vectorizers Do runs with
DoVectorizers == Vectorizers \cup {VectorizerDouble(NewTfIdfVectorizer(<<>>), n) : n \in 1..2}

\* the documents of Do: "", "AA", "AA AA", "AA" ' ' U+00E9 U+00E9
DoDocuments == {<<>>, <<65, 65>>, <<65, 65, 32, 65, 65>>, <<65, 65, 32, 233, 233>>}

DoCorpora == SeqsUpTo(DoDocuments, MaxDocs)

\* the queries of Do: "", "AA", "tt", "AA tt", "AA" ' ' U+00E9 U+00E9
DoQueries ==
    {<<>>, <<65, 65>>, <<116, 116>>, <<65, 65, 32, 116, 116>>, <<65, 65, 32, 233, 233>>}

\* the words of the tests of Do
Apple == <<97, 112, 112, 108, 101>>

Banana == <<98, 97, 110, 97, 110, 97>>

Orange == <<111, 114, 97, 110, 103, 101>>

Grape == <<103, 114, 97, 112, 101>>

\* the query and the documents of three tests of Do: "apple banana" on
\* "apple orange", "banana grape"; "apple" on "orange", "grape"; "" on "apple"
DoTestInputs ==
    {[input |-> Apple \o <<32>> \o Banana,
      documents |-> <<Apple \o <<32>> \o Orange, Banana \o <<32>> \o Grape>>],
     [input |-> Apple, documents |-> <<Orange, Grape>>],
     [input |-> <<>>, documents |-> <<Apple>>]}

\* the arguments Do is called with
DoInputs ==
    {[input |-> input, documents |-> documents] : input \in DoQueries, documents \in DoCorpora}
        \cup DoTestInputs

----------------------------------------------------------------------------
(* The calls. No call changes an object and no call reads what another     *)
(* one returned, unless the caller passes it on: each call is made from    *)
(* the state after construction, and Tf also on what Tokenize returned.    *)

\* tokenizer.Tokenize(documents)
CallTokenize ==
    /\ op = "init"
    /\ \E documents \in Corpora :
            /\ op' = "Tokenize"
            /\ args' = [documents |-> documents]
            /\ ret' = Tokenize(tokenizer, documents)
            /\ UNCHANGED <<tokenizer, vectorizer, memory, goroutines>>

\* Tf(vocabulary, tokens) on what the Tokenize call before it returned
CallTfTokenized ==
    /\ op = "Tokenize"
    /\ ret.err = "nil"
    /\ op' = "Tf"
    /\ args' = [vocabulary |-> ret.vocabulary, tokens |-> ret.tokens]
    /\ ret' = Tf(ret.vocabulary, ret.tokens)
    /\ UNCHANGED <<tokenizer, vectorizer, memory, goroutines>>

\* Tf(vocabulary, tokens) on a vocabulary and token sequences of the caller
CallTf ==
    /\ op = "init"
    /\ \E vocab \in Vocabularies, tokens \in TokenLists :
            /\ op' = "Tf"
            /\ args' = [vocabulary |-> vocab, tokens |-> tokens]
            /\ ret' = Tf(vocab, tokens)
            /\ UNCHANGED <<tokenizer, vectorizer, memory, goroutines>>

\* Idf(vocabulary, tokens, smoothing)
CallIdf ==
    /\ op = "init"
    /\ \E vocab \in Vocabularies, tokens \in TokenLists, smoothing \in BOOLEAN :
            /\ op' = "Idf"
            /\ args' = [vocabulary |-> vocab, tokens |-> tokens, smoothing |-> smoothing]
            /\ ret' = Idf(vocab, tokens, smoothing)
            /\ UNCHANGED <<tokenizer, vectorizer, memory, goroutines>>

\* vectorizer.TfIdf(tfVec, idfVec)
CallTfIdf ==
    /\ op = "init"
    /\ \E tfVec \in TfMatrices, idfVec \in IdfVectors :
            LET tfRows == [i \in 1..Len(tfVec) |-> i]
                idfAt == Len(tfVec) + 1
                r == TfIdf(vectorizer, tfVec, idfVec)
                m == TfIdfInPlace(vectorizer, StoreArguments(tfVec, idfVec), tfRows, idfAt)
            IN  /\ op' = "TfIdf"
                /\ args' = [tfVec |-> tfVec, idfVec |-> idfVec,
                            tfRows |-> tfRows, idfAt |-> idfAt]
                /\ ret' = [tfIdfMat |-> r.tfIdfMat, err |-> r.err, panic |-> r.panic,
                           rows |-> m.rows]
                /\ memory' = m.mem
                /\ UNCHANGED <<tokenizer, vectorizer, goroutines>>

\* cosineSimilarity(vec1, vec2)
CallCosineSimilarity ==
    /\ op = "init"
    /\ \E vec1 \in CosineVectors, vec2 \in CosineVectors :
            /\ op' = "cosineSimilarity"
            /\ args' = [vec1 |-> vec1, vec2 |-> vec2]
            /\ ret' = cosineSimilarity(vec1, vec2)
            /\ UNCHANGED <<tokenizer, vectorizer, memory, goroutines>>

\* NewCosineSimilarity(tokenizer, vectorizer).Do(input, documents)
CallDo ==
    /\ op = "init"
    /\ \E in \in DoInputs :
            /\ op' = "Do"
            /\ args' = in
            /\ ret' = Do(NewCosineSimilarity(tokenizer, vectorizer), in.input, in.documents)
            /\ UNCHANGED <<tokenizer, vectorizer, memory, goroutines>>

\* the goroutines that share the tokenizer, the vectorizer and the memory
Goroutines == {"g1", "g2"}

\* a call that a goroutine is about to make: pc is its position in the code
\* of the call, local what it holds, reads and writes the addresses of the
\* memory it read and wrote, fieldReads and fieldWrites the fields of the
\* tokenizer and the vectorizer it read and wrote
Go(call, a) ==
    [call |-> call, args |-> a, pc |-> 0, done |-> FALSE, local |-> <<>>, ret |-> <<>>,
     reads |-> {}, writes |-> {}, fieldReads |-> {}, fieldWrites |-> {}]

\* the documents of the concurrent calls: "AA" and "AA" ' ' U+00E9 U+00E9; "AA AA"
ConcurrentCorpora == {<<<<65, 65>>, <<65, 65, 32, 233, 233>>>>, <<<<65, 65, 32, 65, 65>>>>}

\* the TF matrices the concurrent TfIdf calls share, with the IDF vector
ConcurrentTfMatrices == {<<<<F(1), F(2)>>, <<F(0), F(1)>>>>, <<<<F(2), F(0)>>>>}

ConcurrentIdfVector == <<Scale, Scale + (Scale \div 2)>>

\* the calls a goroutine can make when the memory holds tfVec and idfVec
ConcurrentCalls(tfVec, idfVec) ==
    {Go("Tokenize", [documents |-> d]) : d \in ConcurrentCorpora}
        \cup {Go("TfIdf", [tfRows |-> [i \in 1..Len(tfVec) |-> i], idfAt |-> Len(tfVec) + 1,
                           tfVec |-> tfVec, idfVec |-> idfVec])}
        \cup {Go("Do", [input |-> <<65, 65>>, documents |-> d]) : d \in ConcurrentCorpora}

\* one step of Tokenize: the next document, or the return
TokenizeStep(t, g) ==
    IF g.pc < Len(g.args.documents)
    THEN LET r == Tokenize(t, <<g.args.documents[g.pc + 1]>>)
         IN  IF r.err # "nil"
             THEN [g EXCEPT !.done = TRUE, !.fieldReads = @ \cup {"tokenPattern"},
                            !.ret = [vocabulary |-> <<>>, tokens |-> <<>>, err |-> r.err]]
             ELSE [g EXCEPT !.pc = @ + 1, !.local = Append(@, r.tokens[1]),
                            !.fieldReads = @ \cup {"tokenPattern", "normalizeFunc"}]
    ELSE [g EXCEPT !.done = TRUE,
                   !.ret = [vocabulary |-> vocabulary(g.local), tokens |-> g.local,
                            err |-> "nil"]]

\* what TfIdf returns from the memory: the values of its rows
TfIdfReturn(mem, rows, err, panic) ==
    [tfIdfMat |-> [i \in 1..Len(rows) |-> mem[rows[i]]], err |-> err, panic |-> panic]

\* one step of TfIdf on the memory mem: the checks and the allocation of
\* the rows, the next row, or the return; local holds the rows
TfIdfStep(t, mem, g) ==
    LET a == g.args IN
    IF g.pc = 0
    THEN IF Len(a.tfRows) = 0 \/ Len(mem[a.tfRows[1]]) # Len(mem[a.idfAt])
         THEN LET r == TfIdfInPlace(t, mem, a.tfRows, a.idfAt)
              IN  [mem |-> mem,
                   g |-> [g EXCEPT !.done = TRUE, !.ret = TfIdfReturn(mem, <<>>, r.err, FALSE)]]
         ELSE LET m == MakeRows(mem, a.tfRows)
              IN  [mem |-> m.mem,
                   g |-> [g EXCEPT !.pc = 1, !.local = m.rows,
                                   !.writes = @ \cup {m.rows[i] : i \in 1..Len(m.rows)}]]
    ELSE IF g.pc <= Len(g.local)
    THEN LET r == TfIdfRowInPlace(t, mem, a.tfRows, a.idfAt, g.local, g.pc)
             h == [g EXCEPT !.reads = @ \cup {a.tfRows[g.pc], a.idfAt},
                            !.writes = @ \cup {g.local[g.pc]},
                            !.fieldReads = @ \cup {"NormLevel"}]
         IN  IF r.panic \/ r.err # "nil"
             THEN [mem |-> r.mem,
                   g |-> [h EXCEPT !.done = TRUE,
                                   !.ret = TfIdfReturn(r.mem, <<>>, r.err, r.panic)]]
             ELSE [mem |-> r.mem, g |-> [h EXCEPT !.pc = @ + 1]]
    ELSE [mem |-> mem,
          g |-> [g EXCEPT !.done = TRUE, !.ret = TfIdfReturn(mem, g.local, "nil", FALSE)]]

\* one step of Do: one of its four calls on the tokenizer and the
\* vectorizer, with what follows it up to the next call or the return
DoStep(c, g) ==
    LET a == g.args
        l == g.local
    IN
    IF g.pc = 0
    THEN LET r1 == InterfaceTokenize(c.tokenizer, 1, a.documents)
             calls1 == <<[call |-> "Tokenize(documents)", err |-> r1.err]>>
             h == [g EXCEPT !.fieldReads = @ \cup {"tokenPattern", "normalizeFunc"}]
         IN  IF r1.err # "nil"
             THEN [h EXCEPT !.done = TRUE, !.ret = DoReturn(<<>>, r1.err, calls1, FALSE)]
             ELSE [h EXCEPT !.pc = 1,
                            !.local = [vocabulary |-> r1.vocabulary, tokens |-> r1.tokens,
                                       calls |-> calls1]]
    ELSE IF g.pc = 1
    THEN LET tfVec == Tf(l.vocabulary, l.tokens)
             idfVec == Idf(l.vocabulary, l.tokens, TRUE)
             r2 == InterfaceTfIdf(c.vectorizer, 1, tfVec, idfVec)
             calls2 == Append(l.calls, [call |-> "TfIdf(documents)", err |-> r2.err])
             h == [g EXCEPT !.fieldReads = @ \cup {"NormLevel"}]
         IN  IF r2.panic THEN [h EXCEPT !.done = TRUE,
                                        !.ret = DoReturn(<<>>, "nil", calls2, TRUE)]
             ELSE IF r2.err # "nil"
             THEN [h EXCEPT !.done = TRUE, !.ret = DoReturn(<<>>, r2.err, calls2, FALSE)]
             ELSE [h EXCEPT !.pc = 2,
                            !.local = [vocabulary |-> l.vocabulary, idfVec |-> idfVec,
                                       tfIdfVec |-> r2.tfIdfMat, calls |-> calls2]]
    ELSE IF g.pc = 2
    THEN LET r3 == InterfaceTokenize(c.tokenizer, 2, <<a.input>>)
             calls3 == Append(l.calls, [call |-> "Tokenize(input)", err |-> r3.err])
             h == [g EXCEPT !.fieldReads = @ \cup {"tokenPattern", "normalizeFunc"}]
         IN  IF r3.err # "nil"
             THEN [h EXCEPT !.done = TRUE, !.ret = DoReturn(<<>>, r3.err, calls3, FALSE)]
             ELSE [h EXCEPT !.pc = 3,
                            !.local = [vocabulary |-> l.vocabulary, idfVec |-> l.idfVec,
                                       tfIdfVec |-> l.tfIdfVec, queryTokens |-> r3.tokens,
                                       calls |-> calls3]]
    ELSE LET tf == Tf(l.vocabulary, l.queryTokens)
             r4 == InterfaceTfIdf(c.vectorizer, 2, tf, l.idfVec)
             calls4 == Append(l.calls, [call |-> "TfIdf(input)", err |-> r4.err])
             h == [g EXCEPT !.done = TRUE, !.fieldReads = @ \cup {"NormLevel"}]
         IN  IF r4.panic THEN [h EXCEPT !.ret = DoReturn(<<>>, "nil", calls4, TRUE)]
             ELSE IF r4.err # "nil" THEN [h EXCEPT !.ret = DoReturn(<<>>, r4.err, calls4, FALSE)]
             ELSE IF DoScoresPanic(a.documents, r4.tfIdfMat, l.tfIdfVec)
             THEN [h EXCEPT !.ret = DoReturn(<<>>, "nil", calls4, TRUE)]
             ELSE [h EXCEPT !.ret = DoReturn(DoScores(a.documents, r4.tfIdfMat, l.tfIdfVec),
                                             "nil", calls4, FALSE)]

\* a goroutine takes a step of its Tokenize call
GoTokenize ==
    \E g \in Goroutines :
        /\ goroutines[g].call = "Tokenize"
        /\ ~goroutines[g].done
        /\ goroutines' = [goroutines EXCEPT ![g] = TokenizeStep(tokenizer, @)]
        /\ UNCHANGED <<tokenizer, vectorizer, op, args, ret, memory>>

\* a goroutine takes a step of its TfIdf call
GoTfIdf ==
    \E g \in Goroutines :
        /\ goroutines[g].call = "TfIdf"
        /\ ~goroutines[g].done
        /\ LET r == TfIdfStep(vectorizer, memory, goroutines[g])
           IN  /\ memory' = r.mem
               /\ goroutines' = [goroutines EXCEPT ![g] = r.g]
        /\ UNCHANGED <<tokenizer, vectorizer, op, args, ret>>

\* a goroutine takes a step of its Do call
GoDo ==
    \E g \in Goroutines :
        /\ goroutines[g].call = "Do"
        /\ ~goroutines[g].done
        /\ goroutines' =
               [goroutines EXCEPT ![g] = DoStep(NewCosineSimilarity(tokenizer, vectorizer), @)]
        /\ UNCHANGED <<tokenizer, vectorizer, op, args, ret, memory>>

\* the objects constructed, no call made yet
Init ==
    /\ tokenizer \in ScanTokenizers \cup PatternTokenizers
    /\ vectorizer \in Vectorizers
    /\ op = "init"
    /\ args = <<>>
    /\ ret = <<>>
    /\ memory = <<>>
    /\ goroutines = [g \in Goroutines |-> Go("none", <<>>)]

Next ==
    \/ CallTokenize
    \/ CallTfTokenized
    \/ CallTf
    \/ CallIdf
    \/ CallTfIdf
    \/ CallCosineSimilarity
    \/ CallDo
    \/ GoTokenize
    \/ GoTfIdf
    \/ GoDo

Spec == Init /\ [][Next]_vars

\* the tokenizer alone, and Tf on what it returns
InitTokenizer == Init /\ vectorizer = NewTfIdfVectorizer(<<>>)

NextTokenizer == CallTokenize \/ CallTfTokenized

SpecTokenizer == InitTokenizer /\ [][NextTokenizer]_vars

\* Tf and Idf, which use no object
InitTerms == Init /\ tokenizer = NewTokenizer("nil") /\ vectorizer = NewTfIdfVectorizer(<<>>)

NextTerms == CallTf \/ CallIdf

SpecTerms == InitTerms /\ [][NextTerms]_vars

\* the vectorizer alone
InitVectorizer == Init /\ tokenizer = NewTokenizer("nil")

NextVectorizer == CallTfIdf

SpecVectorizer == InitVectorizer /\ [][NextVectorizer]_vars

\* cosineSimilarity, which uses no object
InitCosine == Init /\ tokenizer = NewTokenizer("nil") /\ vectorizer = NewTfIdfVectorizer(<<>>)

NextCosine == CallCosineSimilarity

SpecCosine == InitCosine /\ [][NextCosine]_vars

\* Do, on the tokenizers and vectorizers of the library and on injected ones
InitDo ==
    /\ tokenizer \in DoTokenizers
    /\ vectorizer \in DoVectorizers
    /\ op = "init"
    /\ args = <<>>
    /\ ret = <<>>
    /\ memory = <<>>
    /\ goroutines = [g \in Goroutines |-> Go("none", <<>>)]

NextDo == CallDo

SpecDo == InitDo /\ [][NextDo]_vars

\* Do on the tokenizers and vectorizers of the library only
InitDoLibrary ==
    /\ InitDo
    /\ tokenizer \in ScanTokenizers \cup PatternTokenizers
    /\ tokenizer.tokenPattern # "invalid"
    /\ vectorizer \in Vectorizers

SpecDoLibrary == InitDoLibrary /\ [][NextDo]_vars

\* two goroutines that share a tokenizer, a vectorizer and the arrays of a
\* TF matrix and an IDF vector, each about to make one call
InitConcurrent ==
    /\ tokenizer \in {NewTokenizer("ToLower"), NewPatternTokenizer("default", "nil")}
    /\ vectorizer \in Vectorizers
    /\ op = "init"
    /\ args = <<>>
    /\ ret = <<>>
    /\ \E tfVec \in ConcurrentTfMatrices :
            /\ memory = StoreArguments(tfVec, ConcurrentIdfVector)
            /\ goroutines \in [Goroutines -> ConcurrentCalls(tfVec, ConcurrentIdfVector)]

NextConcurrent == GoTokenize \/ GoTfIdf \/ GoDo

SpecConcurrent == InitConcurrent /\ [][NextConcurrent]_vars

----------------------------------------------------------------------------
(* Tokenizer: the vocabulary and the token sequences.                      *)

RECURSIVE CodePointLess(_, _)
\* s before t in code-point order
CodePointLess(s, t) ==
    IF t = <<>> THEN FALSE
    ELSE IF s = <<>> THEN TRUE
    ELSE IF Head(s) # Head(t) THEN Head(s) < Head(t)
    ELSE CodePointLess(Tail(s), Tail(t))

\* the tokens of a list of token sequences
TokensOf(tokens) == {tokens[i][j] : <<i, j>> \in {p \in (1..Len(tokens)) \X (1..MaxChars + 1) :
                                                      p[2] <= Len(tokens[p[1]])}}

RunStart(doc, b) ==
    CHOOSE a \in 1..b : /\ \A k \in a..b : IsLetter(doc[k])
                        /\ a = 1 \/ ~IsLetter(doc[a - 1])

RECURSIVE RunsUpTo(_, _)
\* the maximal runs of two or more letters that end at or before b, in order
RunsUpTo(doc, b) ==
    IF b = 0 THEN <<>>
    ELSE IF IsLetter(doc[b]) /\ (b = Len(doc) \/ ~IsLetter(doc[b + 1]))
                             /\ b - RunStart(doc, b) + 1 >= 2
    THEN Append(RunsUpTo(doc, RunStart(doc, b) - 1), SubSeq(doc, RunStart(doc, b), b))
    ELSE RunsUpTo(doc, b - 1)

LetterRuns(doc) == RunsUpTo(doc, Len(doc))

\* C2: without a normalization function the scanning Tokenize returns, for
\* every document, the maximal runs of letters of at least two code points
C2_TokensAreLetterRuns ==
    (op = "Tokenize" /\ tokenizer = NewTokenizer("nil")) =>
        ret.tokens = [i \in 1..Len(args.documents) |-> LetterRuns(args.documents[i])]

\* C3: with a normalization function f the scanning Tokenize returns f of
\* every token that it returns without one
C3_NormalizedOnce ==
    (op = "Tokenize" /\ tokenizer.kind = "scan" /\ tokenizer.normalizeFunc # "nil") =>
        LET raw == Tokenize(NewTokenizer("nil"), args.documents).tokens IN
        ret.tokens = [i \in 1..Len(raw) |->
                        [j \in 1..Len(raw[i]) |-> Call(tokenizer.normalizeFunc, raw[i][j])]]

----------------------------------------------------------------------------
(* Tf.                                                                     *)

RECURSIVE CountIn(_, _)
\* how many times term occurs in tokensRow
CountIn(term, tokensRow) ==
    IF tokensRow = <<>> THEN 0
    ELSE (IF Head(tokensRow) = term THEN 1 ELSE 0) + CountIn(term, Tail(tokensRow))

\* C4: Tf returns one row per document, of the length of the vocabulary,
\* whose j-th entry is the number of occurrences of the j-th term in the
\* document, 0 for a term the document does not hold
C4_TfCounts ==
    (op = "Tf") =>
        /\ Len(ret) = Len(args.tokens)
        /\ \A i \in 1..Len(ret) :
              /\ Len(ret[i]) = Len(args.vocabulary)
              /\ \A j \in 1..Len(args.vocabulary) :
                    ret[i][j] = F(CountIn(args.vocabulary[j], args.tokens[i]))

\* a term counted twice in one document and a term of the vocabulary that a
\* document does not hold
C4_Witness ==
    /\ op = "Tf"
    /\ \E i \in 1..Len(ret) : \E j \in 1..Len(args.vocabulary) : ret[i][j] = F(2)
    /\ \E i \in 1..Len(ret) : \E j \in 1..Len(args.vocabulary) :
          /\ CountIn(args.vocabulary[j], args.tokens[i]) = 0
          /\ ret[i][j] = 0

\* C5: the entries of row i of Tf, called on the vocabulary and the token
\* sequences of one Tokenize call, add up to the number of tokens of
\* document i (under SpecTokenizer Tf is only called on what Tokenize returned)
C5_RowSumIsTokenCount ==
    (op = "Tf") => \A i \in 1..Len(ret) : Sum(ret[i]) = F(Len(args.tokens[i]))

\* a document that holds the same token twice
C5_Witness ==
    /\ op = "Tf"
    /\ \E i \in 1..Len(args.tokens) :
          /\ Len(args.tokens[i]) = 2
          /\ args.tokens[i][1] = args.tokens[i][2]

----------------------------------------------------------------------------
(* Idf.                                                                    *)

RECURSIVE Df(_, _)
\* df(t): the documents that hold t at least once
Df(t, tokens) ==
    IF tokens = <<>> THEN 0
    ELSE (IF CountIn(t, Head(tokens)) >= 1 THEN 1 ELSE 0) + Df(t, Tail(tokens))

\* C6: for N >= 1 documents the weight of a term t is ln((N+1)/(df(t)+1)) + 1
\* with smoothing, and without it ln(N/df(t)) + 1 when df(t) > 0 and
\* ln(N) + 1 when df(t) = 0
C6_IdfFormula ==
    (op = "Idf" /\ Len(args.tokens) >= 1) =>
        LET N == Len(args.tokens) IN
        /\ Len(ret) = Len(args.vocabulary)
        /\ \A j \in 1..Len(args.vocabulary) :
              LET df == Df(args.vocabulary[j], args.tokens) IN
              ret[j] = IF args.smoothing THEN FLog(FDiv(F(N + 1), F(df + 1))) + Scale
                       ELSE IF df > 0 THEN FLog(FDiv(F(N), F(df))) + Scale
                       ELSE FLog(F(N)) + Scale

\* two documents, of which one holds a term of the vocabulary twice
C6_Witness ==
    /\ op = "Idf"
    /\ Len(args.tokens) = 2
    /\ \E j \in 1..Len(args.vocabulary) : \E i \in 1..2 :
          /\ CountIn(args.vocabulary[j], args.tokens[i]) = 2
          /\ Df(args.vocabulary[j], args.tokens) = 1
          /\ ret[j] > Scale

\* C7: every weight Idf returns is at least 1, so strictly positive
C7_IdfAtLeastOne ==
    (op = "Idf") => \A j \in 1..Len(ret) : ret[j] >= Scale /\ ret[j] > 0

\* without smoothing, a term that every document holds: the logarithm is 0
C7_Witness ==
    /\ op = "Idf"
    /\ ~args.smoothing
    /\ Len(args.tokens) >= 1
    /\ \E j \in 1..Len(args.vocabulary) :
          /\ Df(args.vocabulary[j], args.tokens) = Len(args.tokens)
          /\ ret[j] = Scale

\* C8: for an empty list of documents Idf returns a vector of the length of
\* the vocabulary whose entries are all 1.0, with smoothing and without
C8_IdfEmptyCorpus ==
    (op = "Idf" /\ Len(args.tokens) = 0) =>
        /\ Len(ret) = Len(args.vocabulary)
        /\ \A j \in 1..Len(ret) : ret[j] = Scale

\* no document, a vocabulary that is not empty, no smoothing
C8_Witness ==
    /\ op = "Idf"
    /\ args.tokens = <<>>
    /\ Len(args.vocabulary) >= 1
    /\ ~args.smoothing
    /\ Len(ret) >= 1

----------------------------------------------------------------------------
(* TfIdf: the errors.                                                      *)

\* C9: TfIdf on a TF matrix of no rows returns the error "empty TF matrix"
\* and no matrix, whatever the IDF vector and the normalization level
C9_EmptyInput ==
    (op = "TfIdf" /\ Len(args.tfVec) = 0) =>
        /\ ret.err = "empty TF matrix"
        /\ ret.tfIdfMat = <<>>
        /\ ~ret.panic

\* no rows, an IDF vector that is not empty, a level that is none of the three
C9_Witness ==
    /\ op = "TfIdf"
    /\ args.tfVec = <<>>
    /\ Len(args.idfVec) >= 1
    /\ vectorizer.NormLevel \notin {NoNorm, L1Norm, L2Norm}
    /\ ret.err = "empty TF matrix"

\* the rows of tfVec all have c columns
HasColumns(tfVec, c) == \A i \in 1..Len(tfVec) : Len(tfVec[i]) = c

\* C10: TfIdf on a TF matrix of one row or more, whose number of columns is
\* not the length of the IDF vector, returns the dimensions error and no
\* matrix
C10_ShapeMismatch ==
    (/\ op = "TfIdf"
     /\ Len(args.tfVec) >= 1
     /\ \E c \in 0..(MaxVocab + 1) : c # Len(args.idfVec) /\ HasColumns(args.tfVec, c)) =>
        /\ ret.err = "TF matrix and IDF vector dimensions don't match"
        /\ ret.tfIdfMat = <<>>
        /\ ~ret.panic

\* as many rows as idfVec has entries, but another number of columns
C10_Witness ==
    /\ op = "TfIdf"
    /\ Len(args.tfVec) = 2
    /\ HasColumns(args.tfVec, 1)
    /\ Len(args.idfVec) = 2
    /\ ret.err = "TF matrix and IDF vector dimensions don't match"

----------------------------------------------------------------------------
(* TfIdf: the normalization level and the matrix returned.                 *)

\* C11: on a vectorizer whose level is none of NoNorm, L1Norm, L2Norm, TfIdf
\* on a TF matrix of one row or more whose rows all have as many columns as
\* the IDF vector has entries returns the error "invalid normalization
\* level" and no matrix, not even the rows before the failure
C11_InvalidConfig ==
    (/\ op = "TfIdf"
     /\ vectorizer.NormLevel \notin {NoNorm, L1Norm, L2Norm}
     /\ Len(args.tfVec) >= 1
     /\ HasColumns(args.tfVec, Len(args.idfVec))) =>
        /\ ret.err = "invalid normalization level"
        /\ ret.tfIdfMat = <<>>
        /\ ~ret.panic

\* two rows of one column, a level that is none of the three
C11_Witness ==
    /\ op = "TfIdf"
    /\ vectorizer.NormLevel = L2Norm + 1
    /\ Len(args.tfVec) = 2
    /\ HasColumns(args.tfVec, 1)
    /\ Len(args.idfVec) = 1
    /\ args.tfVec[1][1] # 0
    /\ ret.err = "invalid normalization level"
    /\ ret.tfIdfMat = <<>>

\* C12: when TfIdf returns no error, the matrix it returns has the rows of
\* the TF matrix, each of the length of the row of the TF matrix, and under
\* NoNorm every entry is the product of the TF entry and the IDF weight of
\* its column
C12_SameShapeProducts ==
    (op = "TfIdf" /\ ret.err = "nil" /\ ~ret.panic) =>
        /\ Len(ret.tfIdfMat) = Len(args.tfVec)
        /\ \A i \in 1..Len(ret.tfIdfMat) : Len(ret.tfIdfMat[i]) = Len(args.tfVec[i])
        /\ vectorizer.NormLevel = NoNorm =>
              \A i \in 1..Len(ret.tfIdfMat) : \A j \in 1..Len(ret.tfIdfMat[i]) :
                  ret.tfIdfMat[i][j] = FMul(args.tfVec[i][j], args.idfVec[j])

\* how far a norm may be from 1.0 at the resolution of the model
Tolerance == Scale \div 50

\* the Euclidean norm of vec
EuclideanNorm(vec) == FSqrt(Sum([k \in 1..Len(vec) |-> FMul(vec[k], vec[k])]))

\* row i of the matrix TfIdf was called on, weighted, before normalization
Weighted(i) == [j \in 1..Len(args.idfVec) |-> FMul(args.tfVec[i][j], args.idfVec[j])]

\* C13: under L2Norm every row TfIdf returns whose weighted values are not
\* all zero has the Euclidean norm 1.0, within Tolerance
C13_L2UnitNorm ==
    (op = "TfIdf" /\ ret.err = "nil" /\ ~ret.panic /\ vectorizer.NormLevel = L2Norm) =>
        \A i \in 1..Len(ret.tfIdfMat) :
            (\E j \in 1..Len(args.idfVec) : Weighted(i)[j] # 0) =>
                FAbs(EuclideanNorm(ret.tfIdfMat[i]) - Scale) <= Tolerance

\* a row of two weighted values that differ, neither of them zero
C13_Witness ==
    /\ op = "TfIdf"
    /\ vectorizer.NormLevel = L2Norm
    /\ ret.err = "nil"
    /\ ~ret.panic
    /\ \E i \in 1..Len(ret.tfIdfMat) :
          /\ Len(args.idfVec) = 2
          /\ Weighted(i)[1] # 0
          /\ Weighted(i)[2] # 0
          /\ Weighted(i)[1] # Weighted(i)[2]
          /\ ret.tfIdfMat[i] # Weighted(i)

\* C14: under L1Norm and under L2Norm a row whose weighted values are all
\* zero is returned all zero, and no entry TfIdf returns is NaN or infinite
C14_ZeroRowStaysZero ==
    (/\ op = "TfIdf"
     /\ ret.err = "nil"
     /\ ~ret.panic
     /\ vectorizer.NormLevel \in {L1Norm, L2Norm}) =>
        \A i \in 1..Len(ret.tfIdfMat) :
            /\ \A j \in 1..Len(ret.tfIdfMat[i]) : ret.tfIdfMat[i][j] \notin {NaN, Inf, -Inf}
            /\ (\A j \in 1..Len(args.idfVec) : Weighted(i)[j] = 0) =>
                  \A j \in 1..Len(ret.tfIdfMat[i]) : ret.tfIdfMat[i][j] = 0

\* under L1Norm, a row of two zeros after a row that is not zero
C14_Witness ==
    /\ op = "TfIdf"
    /\ vectorizer.NormLevel = L1Norm
    /\ ret.err = "nil"
    /\ ~ret.panic
    /\ Len(ret.tfIdfMat) = 2
    /\ Len(args.idfVec) = 2
    /\ Weighted(1)[1] # 0
    /\ ret.tfIdfMat[2] = <<0, 0>>

----------------------------------------------------------------------------
(* cosineSimilarity.                                                       *)

\* vec has an entry that is not zero
NonZero(vec) == \E k \in 1..Len(vec) : vec[k] # 0

\* C15, as stated: cosineSimilarity(a, a) is 1.0 for every a that is not
\* the zero vector
C15_SelfSimilarityExact ==
    (op = "cosineSimilarity" /\ args.vec1 = args.vec2 /\ NonZero(args.vec1)) =>
        ret.score = Scale

\* C15, amended: cosineSimilarity(a, a) is 1.0 within Tolerance for every a
\* that is not the zero vector, the roots of the norms being rounded
C15_SelfSimilarity ==
    (op = "cosineSimilarity" /\ args.vec1 = args.vec2 /\ NonZero(args.vec1)) =>
        /\ ~ret.panic
        /\ FAbs(ret.score - Scale) <= Tolerance

\* a = (0.5, 0.5): the product of the two roots of 0.5 is not 0.5
C15_Witness ==
    /\ op = "cosineSimilarity"
    /\ args.vec1 = <<Scale \div 2, Scale \div 2>>
    /\ args.vec2 = args.vec1
    /\ ret.score # Scale
    /\ FAbs(ret.score - Scale) <= Tolerance

\* C16: for a and b of one length cosineSimilarity(a, b) is exactly 0.0 when
\* a or b is the zero vector and when no index holds a value that is not
\* zero in both; it is no NaN and no infinity, nothing is divided by zero
C16_ZeroSimilarity ==
    (/\ op = "cosineSimilarity"
     /\ Len(args.vec1) = Len(args.vec2)
     /\ \/ ~NonZero(args.vec1)
        \/ ~NonZero(args.vec2)
        \/ \A k \in 1..Len(args.vec1) : args.vec1[k] = 0 \/ args.vec2[k] = 0) =>
        /\ ~ret.panic
        /\ ret.score = 0

\* the zero vector against one that is not zero
C16_Witness ==
    /\ op = "cosineSimilarity"
    /\ args.vec1 = <<0, 0>>
    /\ args.vec2 = <<Scale, -Scale>>
    /\ ret.score = 0

\* C16, the other case: two vectors that are not zero and share no index
C16_WitnessDisjoint ==
    /\ op = "cosineSimilarity"
    /\ args.vec1 = <<Scale, 0>>
    /\ args.vec2 = <<0, 2 * Scale>>
    /\ ret.score = 0

----------------------------------------------------------------------------
(* Do.                                                                     *)

\* the tokenizer and the vectorizer are the library's, Tokenize does not
\* fail and the level is one of the three
LibraryObjects ==
    /\ tokenizer.kind # "double"
    /\ tokenizer.tokenPattern # "invalid"
    /\ "kind" \notin DOMAIN vectorizer
    /\ vectorizer.NormLevel \in {NoNorm, L1Norm, L2Norm}

\* the vocabulary of the documents Do was called on
CorpusVocabulary == Tokenize(tokenizer, args.documents).vocabulary

\* the IDF vector of the documents Do was called on, smoothing on
CorpusIdf == Idf(CorpusVocabulary, Tokenize(tokenizer, args.documents).tokens, TRUE)

\* the tokens of the one text d
TokensOfText(d) == Tokenize(tokenizer, <<d>>).tokens[1]

\* the TF-IDF vector of the one text d over the vocabulary vocab and with
\* the IDF vector idfVec
TfIdfVector(d, vocab, idfVec) ==
    TfIdf(vectorizer, Tf(vocab, <<TokensOfText(d)>>), idfVec).tfIdfMat[1]

\* C17: on a list of documents that is not empty Do, with a tokenizer and a
\* vectorizer of the library, returns no error and one score per document,
\* the score of document i being the cosine similarity of the TF-IDF vector
\* of the query and the TF-IDF vector of document i
C17_ScoresAreCosines ==
    (op = "Do" /\ LibraryObjects /\ Len(args.documents) >= 1) =>
        /\ ret.err = "nil"
        /\ ~ret.panic
        /\ Len(ret.scores) = Len(args.documents)
        /\ LET vocab == CorpusVocabulary
               idfVec == CorpusIdf
               query == TfIdfVector(args.input, vocab, idfVec)
           IN  \A i \in 1..Len(args.documents) :
                   ret.scores[i] =
                       cosineSimilarity(query,
                                        TfIdfVector(args.documents[i], vocab, idfVec)).score

\* two documents with scores that differ and are not zero, the second below 1.0
C17_Witness ==
    /\ op = "Do"
    /\ LibraryObjects
    /\ Len(args.documents) = 2
    /\ Len(CorpusVocabulary) = 2
    /\ ret.err = "nil"
    /\ Len(ret.scores) = 2
    /\ ret.scores[1] > ret.scores[2]
    /\ ret.scores[2] > 0

\* C18: on an empty list of documents Do, with a tokenizer and a vectorizer
\* of the library, returns the error "empty TF matrix" and no scores, after
\* the Tokenize call on the documents and the TfIdf call that fails: the
\* query is never tokenized and TfIdf is never called a second time
C18_EmptyDocuments ==
    (/\ op = "Do"
     /\ tokenizer.kind # "double"
     /\ "kind" \notin DOMAIN vectorizer
     /\ args.documents = <<>>) =>
        /\ ret.err = "empty TF matrix"
        /\ ret.scores = <<>>
        /\ ~ret.panic
        /\ ret.calls = <<[call |-> "Tokenize(documents)", err |-> "nil"],
                         [call |-> "TfIdf(documents)", err |-> "empty TF matrix"]>>

\* no document, a query that has a token
C18_Witness ==
    /\ op = "Do"
    /\ tokenizer = NewTokenizer("nil")
    /\ vectorizer = NewTfIdfVectorizer(<<>>)
    /\ args.documents = <<>>
    /\ args.input = <<65, 65>>
    /\ ret.err = "empty TF matrix"
    /\ Len(ret.calls) = 2

\* the token "tt", which no document holds
Oov == <<116, 116>>

\* term is one of vocab
InVocabulary(term, vocab) == \E j \in 1..Len(vocab) : vocab[j] = term

\* C19: in Do, with a tokenizer and a vectorizer of the library and
\* documents, tokens of the query that the vocabulary of the documents does
\* not hold are dropped: a query with such a token added, before or after,
\* gets the same scores; a query without a token of the vocabulary gets 0.0
\* for every document and no error; a document without tokens scores 0.0
C19_OutOfVocabularyDropped ==
    (op = "Do" /\ LibraryObjects /\ Len(args.documents) >= 1) =>
        /\ ret.err = "nil"
        /\ ~ret.panic
        /\ ~InVocabulary(Oov, CorpusVocabulary) =>
              \A longer \in {args.input \o <<32>> \o Oov, Oov \o <<32>> \o args.input} :
                  LET r == Do(NewCosineSimilarity(tokenizer, vectorizer), longer,
                              args.documents)
                  IN  r.err = "nil" /\ r.scores = ret.scores
        /\ LET vocab == CorpusVocabulary
               queryTokens == TokensOfText(args.input)
           IN  (\A k \in 1..Len(queryTokens) : ~InVocabulary(queryTokens[k], vocab)) =>
                   \A i \in 1..Len(ret.scores) : ret.scores[i] = 0
        /\ \A i \in 1..Len(args.documents) :
              TokensOfText(args.documents[i]) = <<>> => ret.scores[i] = 0

\* the query "AA tt" on documents that hold "AA": a score that is not zero
C19_Witness ==
    /\ op = "Do"
    /\ LibraryObjects
    /\ args.input = <<65, 65, 32, 116, 116>>
    /\ Len(args.documents) = 2
    /\ args.documents[2] = <<>>
    /\ InVocabulary(<<65, 65>>, CorpusVocabulary)
    /\ ret.err = "nil"
    /\ ret.scores[1] > 0
    /\ ret.scores[2] = 0

\* the calls of Do, in the order of its code
DoCallOrder == <<"Tokenize(documents)", "TfIdf(documents)", "Tokenize(input)", "TfIdf(input)">>

\* C20: whatever the tokenizer and the vectorizer, Do makes its calls in
\* the order of its code, makes no call after one that returned an error,
\* and returns the error of that call and no scores
C20_StopsAtFirstError ==
    op = "Do" =>
        LET n == Len(ret.calls) IN
        /\ n \in 1..Len(DoCallOrder)
        /\ \A k \in 1..n : ret.calls[k].call = DoCallOrder[k]
        /\ \A k \in 1..(n - 1) : ret.calls[k].err = "nil"
        /\ ret.calls[n].err # "nil" => (ret.err = ret.calls[n].err /\ ret.scores = <<>>)
        /\ ret.err # "nil" => ret.err = ret.calls[n].err

\* an injected tokenizer whose second Tokenize call, on the query, fails
C20_Witness ==
    /\ op = "Do"
    /\ tokenizer = TokenizerDouble(NewTokenizer("nil"), 2)
    /\ vectorizer = NewTfIdfVectorizer(<<>>)
    /\ Len(args.documents) = 2
    /\ Len(ret.calls) = 3
    /\ ret.err = "tokenizer double failed"
    /\ ret.scores = <<>>

\* the deviation the tests of Do accept: tol = 2e-1
TestTolerance == Scale \div 5

\* C21: with the scanning tokenizer that lowers the case and the default
\* vectorizer (L2Norm), Do("apple banana", ["apple orange", "banana grape"])
\* returns no error and two scores, each 0.5 within the deviation of the test
C21_AppleBanana ==
    (/\ op = "Do"
     /\ tokenizer = NewTokenizer("ToLower")
     /\ vectorizer = NewTfIdfVectorizer(<<>>)
     /\ args.input = Apple \o <<32>> \o Banana
     /\ args.documents = <<Apple \o <<32>> \o Orange, Banana \o <<32>> \o Grape>>) =>
        /\ ret.err = "nil"
        /\ ~ret.panic
        /\ Len(ret.scores) = 2
        /\ \A i \in 1..2 : FAbs(ret.scores[i] - (Scale \div 2)) <= TestTolerance

\* that call made, over the vocabulary apple, banana, grape, orange, both
\* scores strictly between 0 and 1
C21_Witness ==
    /\ op = "Do"
    /\ tokenizer = NewTokenizer("ToLower")
    /\ vectorizer = NewTfIdfVectorizer(<<>>)
    /\ args.input = Apple \o <<32>> \o Banana
    /\ args.documents = <<Apple \o <<32>> \o Orange, Banana \o <<32>> \o Grape>>
    /\ CorpusVocabulary = <<Apple, Banana, Grape, Orange>>
    /\ ret.err = "nil"
    /\ \A i \in 1..2 : ret.scores[i] > 0 /\ ret.scores[i] < Scale

----------------------------------------------------------------------------
(* TfIdf: rows of different lengths.                                       *)

\* C23: TfIdf on a TF matrix of one row or more in which some row, the
\* first or a later one, has not as many columns as the IDF vector has
\* entries returns the dimensions error and no matrix, and does not panic
C23_EveryRowChecked ==
    (/\ op = "TfIdf"
     /\ Len(args.tfVec) >= 1
     /\ \E i \in 1..Len(args.tfVec) : Len(args.tfVec[i]) # Len(args.idfVec)) =>
        /\ ~ret.panic
        /\ ret.err = "TF matrix and IDF vector dimensions don't match"
        /\ ret.tfIdfMat = <<>>

\* C23, the two ways it fails: a later row that is shorter is read out of
\* range, a later row that is longer is cut to the length of the first
C23_ShortRowPanics ==
    ~(/\ op = "TfIdf"
      /\ Len(args.tfVec) = 2
      /\ Len(args.tfVec[1]) = Len(args.idfVec)
      /\ Len(args.tfVec[2]) < Len(args.idfVec)
      /\ ret.panic)

C23_LongRowAccepted ==
    ~(/\ op = "TfIdf"
      /\ Len(args.tfVec) = 2
      /\ Len(args.tfVec[1]) = Len(args.idfVec)
      /\ Len(args.tfVec[2]) > Len(args.idfVec)
      /\ ret.err = "nil"
      /\ ~ret.panic
      /\ Len(ret.tfIdfMat) = 2)

----------------------------------------------------------------------------
(* Idf: the weight of a term of every document.                            *)

\* term j of the vocabulary Idf was called on is in every document
InEveryDocument(j) == Df(args.vocabulary[j], args.tokens) = Len(args.tokens)

\* C25, as stated: for N >= 1 documents a term of every document has the
\* weight 1.0 without smoothing and a weight above 1.0 with smoothing, and
\* no term has a smaller weight
C25_MinimumWeightStated ==
    (op = "Idf" /\ Len(args.tokens) >= 1) =>
        \A j \in 1..Len(ret) :
            InEveryDocument(j) =>
                /\ ~args.smoothing => ret[j] = Scale
                /\ args.smoothing => ret[j] > Scale
                /\ \A k \in 1..Len(ret) : ret[k] >= ret[j]

\* C25, amended: for N >= 1 documents a term of every document has the
\* weight 1.0 exactly, with smoothing as without, and no term has a smaller
\* weight
C25_MinimumWeight ==
    (op = "Idf" /\ Len(args.tokens) >= 1) =>
        \A j \in 1..Len(ret) :
            InEveryDocument(j) =>
                /\ ret[j] = Scale
                /\ \A k \in 1..Len(ret) : ret[k] >= ret[j]

\* with smoothing, two documents, a term of both and a term of one
C25_Witness ==
    /\ op = "Idf"
    /\ args.smoothing
    /\ Len(args.tokens) = 2
    /\ Len(ret) = 2
    /\ InEveryDocument(1)
    /\ Df(args.vocabulary[2], args.tokens) = 1
    /\ ret[1] = Scale
    /\ ret[2] > Scale

----------------------------------------------------------------------------
(* The two tokenizers.                                                     *)

\* C26: the scanning tokenizer returns, for every corpus, the vocabulary and
\* the token sequences that the pattern-based tokenizer with the default
\* pattern and the same normalization function returns
C26_TokenizersAgree ==
    (op = "Tokenize" /\ tokenizer.kind = "scan") =>
        ret = Tokenize(NewPatternTokenizer("default", tokenizer.normalizeFunc),
                       args.documents)

\* C26 where it holds: no normalization function, a corpus of 'A' and ' '
C26_AgreeOnAscii ==
    (/\ op = "Tokenize"
     /\ tokenizer = NewTokenizer("nil")
     /\ \A i \in 1..Len(args.documents) :
            \A k \in 1..Len(args.documents[i]) : args.documents[i][k] \in {32, 65}) =>
        ret = Tokenize(NewPatternTokenizer("default", "nil"), args.documents)

----------------------------------------------------------------------------
(* Do: the order of the documents.                                         *)

\* documents in the order p: document i of the result is documents[p[i]]
Reordered(documents, p) == [i \in 1..Len(documents) |-> documents[p[i]]]

\* C27: for every query, every list of documents that is not empty and
\* every permutation p of it, Do on the reordered documents returns the
\* error Do returns on the documents and its scores reordered by p
C27_OrderEquivariant ==
    (op = "Do" /\ Len(args.documents) >= 1) =>
        \A p \in Permutations(1..Len(args.documents)) :
            LET r == Do(NewCosineSimilarity(tokenizer, vectorizer), args.input,
                        Reordered(args.documents, p))
            IN  /\ r.err = ret.err
                /\ r.panic = ret.panic
                /\ Len(r.scores) = Len(ret.scores)
                /\ \A i \in 1..Len(r.scores) : r.scores[i] = ret.scores[p[i]]

\* two documents with scores that differ, swapped
C27_Witness ==
    /\ op = "Do"
    /\ Len(args.documents) = 2
    /\ ret.err = "nil"
    /\ ret.scores[1] # ret.scores[2]
    /\ ret.scores[2] > 0
    /\ Do(NewCosineSimilarity(tokenizer, vectorizer), args.input,
          <<args.documents[2], args.documents[1]>>).scores = <<ret.scores[2], ret.scores[1]>>

----------------------------------------------------------------------------
(* TfIdf: the storage of the arguments and of the result.                  *)

\* C24: after a TfIdf call, failed or not and whatever the level, the rows
\* of the TF matrix and the IDF vector hold in memory the values they held
\* before the call, and the rows returned are arrays that are none of the
\* TF matrix nor the IDF vector, holding the values returned
C24_ArgumentsUnchanged ==
    op = "TfIdf" =>
        /\ \A i \in 1..Len(args.tfVec) : memory[args.tfRows[i]] = args.tfVec[i]
        /\ memory[args.idfAt] = args.idfVec
        /\ (ret.err = "nil" /\ ~ret.panic) =>
              /\ Len(ret.rows) = Len(ret.tfIdfMat)
              /\ \A i \in 1..Len(ret.rows) :
                    /\ ret.rows[i] # args.idfAt
                    /\ \A k \in 1..Len(args.tfRows) : ret.rows[i] # args.tfRows[k]
                    /\ memory[ret.rows[i]] = ret.tfIdfMat[i]

\* under L2Norm, a row returned whose values are not the ones of the TF row,
\* which the memory still holds
C24_Witness ==
    /\ op = "TfIdf"
    /\ vectorizer.NormLevel = L2Norm
    /\ ret.err = "nil"
    /\ ~ret.panic
    /\ Len(ret.rows) = 2
    /\ memory[ret.rows[2]] # args.tfVec[2]
    /\ memory[args.tfRows[2]] = args.tfVec[2]
    /\ args.tfVec[2] # <<>>

\* C24 on a call that failed after it wrote a row: a level that is none of
\* the three
C24_WitnessFailed ==
    /\ op = "TfIdf"
    /\ ret.err = "invalid normalization level"
    /\ Len(memory) > Len(args.tfVec) + 1
    /\ memory[args.tfRows[1]] = args.tfVec[1]
    /\ args.tfVec[1] # <<>>

----------------------------------------------------------------------------
(* Concurrent calls.                                                       *)

\* what the call of the goroutine record g returns when it runs alone, on
\* the tokenizer, the vectorizer and the arrays as they were constructed
Alone(g) ==
    IF g.call = "Tokenize" THEN Tokenize(tokenizer, g.args.documents)
    ELSE IF g.call = "TfIdf" THEN TfIdf(vectorizer, g.args.tfVec, g.args.idfVec)
    ELSE Do(NewCosineSimilarity(tokenizer, vectorizer), g.args.input, g.args.documents)

\* C22: in every interleaving of the steps of two concurrent calls, each a
\* Tokenize, a TfIdf or a Do, on one tokenizer and one vectorizer, no call
\* has written a field of the tokenizer or of the vectorizer, no call has
\* written an array that the other call has read or written, and a call
\* that has returned has returned what it returns alone
C22_ConcurrentCallsIndependent ==
    \A g \in Goroutines :
        /\ goroutines[g].fieldWrites = {}
        /\ \A h \in Goroutines \ {g} :
              goroutines[g].writes \cap (goroutines[h].reads \cup goroutines[h].writes) = {}
        /\ (goroutines[g].call # "none" /\ goroutines[g].done) =>
              goroutines[g].ret = Alone(goroutines[g])

\* two TfIdf calls on the same arrays, both returned without error, each
\* having read the rows and the NormLevel the other read and written its own
C22_Witness ==
    /\ \A g \in Goroutines :
          /\ goroutines[g].call = "TfIdf"
          /\ goroutines[g].done
          /\ goroutines[g].ret.err = "nil"
          /\ "NormLevel" \in goroutines[g].fieldReads
          /\ goroutines[g].writes # {}
    /\ goroutines["g1"].reads = goroutines["g2"].reads
    /\ goroutines["g1"].reads # {}
    /\ vectorizer.NormLevel = L1Norm

\* C22, another pair: a Do and a Tokenize, both returned
C22_WitnessDoTokenize ==
    /\ goroutines["g1"].call = "Do"
    /\ goroutines["g2"].call = "Tokenize"
    /\ goroutines["g1"].done
    /\ goroutines["g2"].done
    /\ goroutines["g1"].ret.err = "nil"
    /\ goroutines["g1"].fieldReads = {"tokenPattern", "normalizeFunc", "NormLevel"}

====
